---- MODULE Spec2Model ----
(***************************************************************************)
(* Model of the hackernews-api-rs extraction layer (src/src/parse.rs), its *)
(* record types (src/src/types.rs) and the client operations that use them *)
(* (src/src/lib.rs).                                                       *)
(*                                                                         *)
(* A string is the sequence of its characters, a character the number of   *)
(* its Unicode code point, so Len, SubSeq, Tail and \o act on strings and  *)
(* every character of the source's strings can be written.  Str gives the  *)
(* string a literal of the source denotes.  Tag names, attribute names and *)
(* error messages are only compared and joined, never read by character,   *)
(* and are kept as literals.  A document is a tree of nodes; an ElementRef *)
(* is the path of child indices from the document node to the element.     *)
(* Option<T> is a sequence of length 0 (None) or 1 (Some),                 *)
(* Result<T, ParseError> is a record with an ok flag and either val or err *)
(* (the error message).                                                    *)
(***************************************************************************)
EXTENDS Integers, Sequences, FiniteSets, TLC

VARIABLES doc, op, res, upvoted, held

vars == <<doc, op, res, upvoted, held>>

-----------------------------------------------------------------------------
(* Option and Result *)

None == <<>>

Some(v) == <<v>>

Unwrap(o) == o[1]

UnwrapOr(o, d) == IF o = <<>> THEN d ELSE o[1]

\* Option::or
OptOr(a, b) == IF a # <<>> THEN a ELSE b

Ok(v) == [ok |-> TRUE, val |-> v]

\* ParseError::new(msg)
ParseError(msg) == [ok |-> FALSE, err |-> msg]

\* Result::unwrap_or
ResUnwrapOr(r, d) == IF r.ok THEN r.val ELSE d

\* Option::ok_or_else(|| ParseError::new(msg))
OkOrElse(o, msg) == IF o = <<>> THEN ParseError(msg) ELSE Ok(o[1])

-----------------------------------------------------------------------------
(* Strings *)

\* the ASCII characters a literal may hold besides \t, \n, \f and \r:
\* U+0020..U+005F and U+0061..U+007E, each range in order
AsciiLow ==
    " !\"#$%&'()*+,-./0123456789:;<=>?@ABCDEFGHIJKLMNOPQRSTUVWXYZ[\\]^_"

AsciiHigh == "abcdefghijklmnopqrstuvwxyz{|}~"

\* the code point of each character a literal may hold
CodeOf ==
    [c \in {"\t", "\n", "\f", "\r"}
               \cup {SubSeq(AsciiLow, i, i) : i \in 1..Len(AsciiLow)}
               \cup {SubSeq(AsciiHigh, i, i) : i \in 1..Len(AsciiHigh)} |->
        CASE c = "\t" -> 9
          [] c = "\n" -> 10
          [] c = "\f" -> 12
          [] c = "\r" -> 13
          [] \E i \in 1..Len(AsciiLow) : SubSeq(AsciiLow, i, i) = c ->
                 31 + CHOOSE i \in 1..Len(AsciiLow) : SubSeq(AsciiLow, i, i) = c
          [] OTHER ->
                 96 + CHOOSE i \in 1..Len(AsciiHigh) : SubSeq(AsciiHigh, i, i) = c]

\* the string a literal denotes
Str(lit) == [i \in 1..Len(lit) |-> CodeOf[SubSeq(lit, i, i)]]

\* the empty string
Empty == <<>>

\* s.chars().nth(i - 1)
CharAt(s, i) == s[i]

\* the characters with the Unicode White_Space property: U+0009..U+000D,
\* U+0020, U+0085, U+00A0, U+1680, U+2000..U+200A, U+2028, U+2029, U+202F,
\* U+205F, U+3000
WhiteSpace ==
    (9..13) \cup {32, 133, 160, 5760} \cup (8192..8202)
        \cup {8232, 8233, 8239, 8287, 12288}

\* char::is_whitespace
IsWs(c) == c \in WhiteSpace

\* str::trim_start
RECURSIVE TrimStart(_)
TrimStart(s) ==
    IF s = Empty THEN Empty
    ELSE IF IsWs(CharAt(s, 1)) THEN TrimStart(Tail(s)) ELSE s

\* str::trim_end
RECURSIVE TrimEnd(_)
TrimEnd(s) ==
    IF s = Empty THEN Empty
    ELSE IF IsWs(CharAt(s, Len(s))) THEN TrimEnd(SubSeq(s, 1, Len(s) - 1))
    ELSE s

\* str::trim
Trim(s) == TrimEnd(TrimStart(s))

\* str::contains
Contains(s, sub) ==
    \E i \in 1..(Len(s) - Len(sub) + 1) : SubSeq(s, i, i + Len(sub) - 1) = sub

\* str::ends_with
EndsWith(s, suf) ==
    /\ Len(s) >= Len(suf)
    /\ SubSeq(s, Len(s) - Len(suf) + 1, Len(s)) = suf

\* s.split(' ').next(): the text before the first U+0020
FirstSplit(s) ==
    IF \E i \in 1..Len(s) : CharAt(s, i) = 32
    THEN LET i == CHOOSE j \in 1..Len(s) :
                      /\ CharAt(s, j) = 32
                      /\ \A k \in 1..(j - 1) : CharAt(s, k) # 32
         IN  SubSeq(s, 1, i - 1)
    ELSE s

\* char::is_ascii_digit: U+0030..U+0039
IsAsciiDigit(c) == c \in 48..57

DigitVal(c) == c - 48

\* text.chars().filter(|c| c.is_ascii_digit()).collect::<String>()
RECURSIVE FilterDigits(_)
FilterDigits(s) ==
    IF s = Empty THEN Empty
    ELSE (IF IsAsciiDigit(CharAt(s, 1)) THEN <<CharAt(s, 1)>> ELSE Empty)
             \o FilterDigits(Tail(s))

RECURSIVE StripZeros(_)
StripZeros(s) ==
    IF s # Empty /\ CharAt(s, 1) = 48 THEN StripZeros(Tail(s)) ELSE s

\* a < b for two digit strings of the same length
RECURSIVE DigitsLess(_, _)
DigitsLess(a, b) ==
    IF a = Empty THEN FALSE
    ELSE IF CharAt(a, 1) # CharAt(b, 1)
         THEN DigitVal(CharAt(a, 1)) < DigitVal(CharAt(b, 1))
         ELSE DigitsLess(Tail(a), Tail(b))

\* the number written by the digit string s exceeds the one written by max
Exceeds(s, max) ==
    LET t == StripZeros(s)
    IN  \/ Len(t) > Len(max)
        \/ Len(t) = Len(max) /\ DigitsLess(max, t)

RECURSIVE NumVal(_)
NumVal(s) ==
    IF s = Empty THEN 0
    ELSE NumVal(SubSeq(s, 1, Len(s) - 1)) * 10 + DigitVal(CharAt(s, Len(s)))

U64Max == Str("18446744073709551615")

U32Max == Str("4294967295")

\* str::parse::<uN>(): an optional '+' (U+002B) before at least one digit (a
\* lone sign is an invalid digit), then digits read left to right; the first
\* offending position decides between InvalidDigit and overflow.
ParseUint(src, max) ==
    LET s == IF Len(src) > 1 /\ CharAt(src, 1) = 43 THEN Tail(src) ELSE src
        bad == {i \in 1..Len(s) : ~IsAsciiDigit(CharAt(s, i))}
        firstBad == IF bad = {} THEN Len(s) + 1
                    ELSE CHOOSE i \in bad : \A j \in bad : i <= j
        over == {i \in 1..(firstBad - 1) : Exceeds(SubSeq(s, 1, i), max)}
    IN  IF s = Empty THEN ParseError("cannot parse integer from empty string")
        ELSE IF over # {}
             THEN ParseError("number too large to fit in target type")
        ELSE IF bad # {} THEN ParseError("invalid digit found in string")
        ELSE Ok(NumVal(s))

-----------------------------------------------------------------------------
(* Documents: scraper::Html, ElementRef, Selector *)

AttrNames == {"class", "href", "id", "width"}

NoAttrs == [a \in AttrNames |-> None]

\* an element node
El(tag, attrs, kids) == [tag |-> tag, attrs |-> attrs, kids |-> kids, text |-> Empty]

\* a text node
Txt(s) == [tag |-> "#text", attrs |-> NoAttrs, kids |-> <<>>, text |-> s]

\* the document node, parent of the top-level nodes
Document(kids) ==
    [tag |-> "#document", attrs |-> NoAttrs, kids |-> kids, text |-> Empty]

IsElement(n) == n.tag \notin {"#text", "#document"}

RECURSIVE NodeAt(_, _)
NodeAt(n, p) == IF p = <<>> THEN n ELSE NodeAt(n.kids[Head(p)], Tail(p))

\* Element::attr(name)
Attr(n, name) == n.attrs[name]

\* the paths of all nodes strictly below p, in document order
RECURSIVE DescFrom(_, _, _)
DescFrom(d, p, i) ==
    IF i > Len(NodeAt(d, p).kids) THEN <<>>
    ELSE <<Append(p, i)>> \o DescFrom(d, Append(p, i), 1) \o DescFrom(d, p, i + 1)

DescPaths(d, p) == DescFrom(d, p, 1)

\* the whitespace-separated tokens of a class attribute
RECURSIVE Tokens(_)
Tokens(s) ==
    LET t == TrimStart(s)
        ws == {i \in 1..Len(t) : IsWs(CharAt(t, i))}
        e == IF ws = {} THEN Len(t) + 1 ELSE CHOOSE i \in ws : \A j \in ws : i <= j
    IN  IF t = Empty THEN {}
        ELSE {SubSeq(t, 1, e - 1)} \cup Tokens(SubSeq(t, e, Len(t)))

ClassTokens(n) == Tokens(UnwrapOr(Attr(n, "class"), Empty))

\* one compound selector: an optional tag name and a set of class names
Compound(tag, cls) == [tag |-> tag, cls |-> {Str(c) : c \in cls}]

\* Selector::parse(s).unwrap() for the selectors the parser uses: the
\* compound selectors of s, joined by descendant combinators
sel(s) ==
    CASE s = "a" -> <<Compound("a", {})>>
      [] s = ".hnuser" -> <<Compound("", {"hnuser"})>>
      [] s = ".storylink" -> <<Compound("", {"storylink"})>>
      [] s = ".score" -> <<Compound("", {"score"})>>
      [] s = ".age" -> <<Compound("", {"age"})>>
      [] s = ".comment" -> <<Compound("", {"comment"})>>
      [] s = ".votelinks" -> <<Compound("", {"votelinks"})>>
      [] s = ".athing" -> <<Compound("", {"athing"})>>
      [] s = ".fatitem" -> <<Compound("", {"fatitem"})>>
      [] s = ".ind img" -> <<Compound("", {"ind"}), Compound("img", {})>>
      [] s = ".comment-tree .athing.comtr" ->
             <<Compound("", {"comment-tree"}), Compound("", {"athing", "comtr"})>>

MatchesCompound(n, c) ==
    /\ IsElement(n)
    /\ c.tag = "" \/ n.tag = c.tag
    /\ c.cls \subseteq ClassTokens(n)

\* the element at p matches the selector: its last compound matches the
\* element and the compounds before it match a chain of ancestors
RECURSIVE Matches(_, _, _)
Matches(d, p, s) ==
    /\ MatchesCompound(NodeAt(d, p), s[Len(s)])
    /\ \/ Len(s) = 1
       \/ \E k \in 0..(Len(p) - 1) :
              Matches(d, SubSeq(p, 1, k), SubSeq(s, 1, Len(s) - 1))

RECURSIVE FilterMatches(_, _, _)
FilterMatches(d, ps, s) ==
    IF ps = <<>> THEN <<>>
    ELSE (IF Matches(d, Head(ps), s) THEN <<Head(ps)>> ELSE <<>>)
             \o FilterMatches(d, Tail(ps), s)

\* ElementRef::select / Html::select: the descendants of the scope that
\* match, in document order
Select(d, scope, s) == FilterMatches(d, DescPaths(d, scope), s)

\* Iterator::next on a selection
First(ps) == IF ps = <<>> THEN None ELSE Some(ps[1])

\* NodeRef::next_sibling: the node right after p under the same parent
next_sibling(d, p) ==
    LET parent == SubSeq(p, 1, Len(p) - 1)
        i == p[Len(p)] + 1
    IN  IF i <= Len(NodeAt(d, parent).kids) THEN Some(Append(parent, i)) ELSE None

\* ElementRef::wrap: Some for an element node only
Wrap(d, p) == IF IsElement(NodeAt(d, p)) THEN Some(p) ELSE None

\* ElementRef::text: the descendant text nodes, in document order
RECURSIVE TextsFrom(_, _)
TextsFrom(n, i) ==
    IF i > Len(n.kids) THEN <<>>
    ELSE (IF n.kids[i].tag = "#text" THEN <<n.kids[i].text>>
          ELSE TextsFrom(n.kids[i], 1))
             \o TextsFrom(n, i + 1)

RECURSIVE FoldText(_, _)
FoldText(s, ts) ==
    IF ts = <<>> THEN s
    ELSE LET clean == Trim(Head(ts))
         IN  FoldText(IF clean # Empty THEN s \o Str(" ") \o clean ELSE s, Tail(ts))

el_text(d, p) == Trim(FoldText(Empty, TextsFrom(NodeAt(d, p), 1)))

el_text_opt(d, p) ==
    LET txt == el_text(d, p) IN IF txt = Empty THEN None ELSE Some(txt)

\* ElementRef::html: the serialised element
HtmlAttr(n, a) ==
    IF Attr(n, a) = None THEN Empty
    ELSE Str(" ") \o Str(a) \o Str("=\"") \o Unwrap(Attr(n, a)) \o Str("\"")

RECURSIVE HtmlKids(_, _)
Html(n) ==
    IF n.tag = "#text" THEN n.text
    ELSE Str("<") \o Str(n.tag) \o HtmlAttr(n, "class") \o HtmlAttr(n, "href")
             \o HtmlAttr(n, "id") \o HtmlAttr(n, "width") \o Str(">")
             \o HtmlKids(n, 1) \o Str("</") \o Str(n.tag) \o Str(">")
HtmlKids(n, i) ==
    IF i > Len(n.kids) THEN Empty ELSE Html(n.kids[i]) \o HtmlKids(n, i + 1)

-----------------------------------------------------------------------------
(* Field extractors *)

parse_username(d, el) ==
    LET u == First(Select(d, el, sel(".hnuser")))
    IN  OkOrElse(IF u = None THEN None ELSE el_text_opt(d, Unwrap(u)),
                 "Could not find username")

parse_storylink(d, el) ==
    LET storylink == First(Select(d, el, sel(".storylink")))
    IN  IF storylink = None THEN ParseError("Could not find story link")
        ELSE LET url == Attr(NodeAt(d, Unwrap(storylink)), "href")
                 title == el_text_opt(d, Unwrap(storylink))
             IN  IF url = None THEN ParseError("Story link has no href")
                 ELSE IF title = None THEN ParseError("Could not find title")
                 ELSE Ok([title |-> Unwrap(title), url |-> Unwrap(url)])

parse_score(d, el) ==
    LET s == First(Select(d, el, sel(".score")))
        parsed == IF s = None THEN ParseError("")
                  ELSE ParseUint(FirstSplit(el_text(d, Unwrap(s))), U64Max)
    IN  IF s # None /\ parsed.ok THEN Ok(parsed.val)
        ELSE ParseError("Could not find score")

\* the texts of the anchors a filter keeps, in document order
RECURSIVE CountTexts(_, _)
CountTexts(d, as) ==
    IF as = <<>> THEN <<>>
    ELSE LET txt == el_text(d, Head(as))
         IN  (IF EndsWith(txt, Str("comments")) \/ txt = Str("discuss")
              THEN <<txt>> ELSE <<>>)
                 \o CountTexts(d, Tail(as))

\* faulty variant of parse_comment_count: the first matching anchor is used, not the last
parse_comment_count_first(d, el) ==
    LET texts == CountTexts(d, Select(d, el, sel("a")))
    IN  IF texts = <<>> THEN ParseError("Could not find comment count")
        ELSE LET text == texts[1]
                 n == ParseUint(FilterDigits(text), U64Max)
             IN  IF text = Str("discuss") THEN Ok(0)
                 ELSE IF n.ok THEN Ok(n.val)
                 ELSE ParseError("Could not parse comment count: " \o n.err)

parse_comment_count(d, el) ==
    LET texts == CountTexts(d, Select(d, el, sel("a")))
    IN  IF texts = <<>> THEN ParseError("Could not find comment count")
        ELSE LET text == texts[Len(texts)]
                 n == ParseUint(FilterDigits(text), U64Max)
             IN  IF text = Str("discuss") THEN Ok(0)
                 ELSE IF n.ok THEN Ok(n.val)
                 ELSE ParseError("Could not parse comment count: " \o n.err)

Upvote(url) == [kind |-> "Upvote", url |-> url]

Downvote(url) == [kind |-> "Downvote", url |-> url]

\* VoteAction::url
url(action) == action.url

\* VoteAction::is_upvote
is_upvote(action) == action.kind = "Upvote"

Href(d, p) == UnwrapOr(Attr(NodeAt(d, p), "href"), Empty)

\* Iterator::find on a selection: the first element whose href contains m
RECURSIVE FindHref(_, _, _)
FindHref(d, ps, m) ==
    IF ps = <<>> THEN None
    ELSE IF Contains(Href(d, Head(ps)), m) THEN Some(Head(ps))
    ELSE FindHref(d, Tail(ps), m)

\* faulty variant of parse_upvote: the hidden class of the anchor is not looked at
parse_upvote_any(d, el) ==
    LET a == FindHref(d, Select(d, el, sel("a")), Str("how=up"))
    IN  IF a = None THEN None
        ELSE Some(Upvote(Unwrap(Attr(NodeAt(d, Unwrap(a)), "href"))))

parse_upvote(d, el) ==
    LET found == FindHref(d, Select(d, el, sel("a")), Str("how=up"))
        a == IF found # None
                /\ ~Contains(UnwrapOr(Attr(NodeAt(d, Unwrap(found)), "class"), Empty),
                            Str("nosee"))
             THEN found ELSE None
    IN  IF a = None THEN None
        ELSE Some(Upvote(Unwrap(Attr(NodeAt(d, Unwrap(a)), "href"))))

parse_downvote(d, el) ==
    LET a == FindHref(d, Select(d, el, sel("a")), Str("how=un"))
    IN  IF a = None THEN None
        ELSE Some(Downvote(Unwrap(Attr(NodeAt(d, Unwrap(a)), "href"))))

-----------------------------------------------------------------------------
(* Record assemblers and builders *)

\* faulty variant of Collect: failing items are skipped instead of failing the whole
RECURSIVE CollectSkipping(_)
CollectSkipping(rs) ==
    IF rs = <<>> THEN Ok(<<>>)
    ELSE LET rest == CollectSkipping(Tail(rs))
         IN  IF Head(rs).ok THEN Ok(<<Head(rs).val>> \o rest.val) ELSE rest

\* Iterator::collect::<Result<Vec<_>, _>>(): the first error, or all values
RECURSIVE Collect(_)
Collect(rs) ==
    IF rs = <<>> THEN Ok(<<>>)
    ELSE IF ~Head(rs).ok THEN Head(rs)
    ELSE LET rest == Collect(Tail(rs))
         IN  IF rest.ok THEN Ok(<<Head(rs).val>> \o rest.val) ELSE rest

\* the closure parse_list maps over the listing rows
parse_row(d, row_ref) ==
    LET row == NodeAt(d, row_ref)
        id == Attr(row, "id")
        link == parse_storylink(d, row_ref)
        sib == next_sibling(d, row_ref)
        action_row_ref == IF sib = None THEN None ELSE Wrap(d, Unwrap(sib))
    IN  IF id = None THEN ParseError("Could not get id for submission")
        ELSE IF ~link.ok THEN link
        ELSE IF action_row_ref = None THEN ParseError("Could not find action row")
        ELSE LET arow == Unwrap(action_row_ref)
                 upvote == parse_upvote(d, row_ref)
                 downvote == parse_downvote(d, arow)
             IN  Ok([id |-> Unwrap(id),
                     title |-> link.val.title,
                     username |-> ResUnwrapOr(parse_username(d, arow), Str("<unknown>")),
                     url |-> link.val.url,
                     score |-> ResUnwrapOr(parse_score(d, arow), 0),
                     comment_count |-> ResUnwrapOr(parse_comment_count(d, arow), 0),
                     comments |-> <<>>,
                     vote |-> OptOr(upvote, downvote)])

RECURSIVE MapRows(_, _)
MapRows(d, ps) ==
    IF ps = <<>> THEN <<>> ELSE <<parse_row(d, Head(ps))>> \o MapRows(d, Tail(ps))

parse_list(d) == Collect(MapRows(d, Select(d, <<>>, sel(".athing"))))

\* the depth of a comment: width of the indentation image, in units of 40
comment_depth(d, el) ==
    LET img == First(Select(d, el, sel(".ind img")))
        width == IF img = None THEN None ELSE Attr(NodeAt(d, Unwrap(img)), "width")
        parsed == IF width = None THEN ParseError("")
                  ELSE ParseUint(Unwrap(width), U32Max)
    IN  IF width # None /\ parsed.ok THEN Ok(parsed.val \div 40)
        ELSE ParseError("Could not determine comment depth")

\* the loop of parse_comment over the anchors of the vote links element
RECURSIVE VoteLinks(_, _, _, _)
VoteLinks(d, links, up, down) ==
    IF links = <<>> THEN [up |-> up, down |-> down]
    ELSE LET href == Attr(NodeAt(d, Head(links)), "href")
         IN  IF href = None THEN VoteLinks(d, Tail(links), up, down)
             ELSE IF Contains(Unwrap(href), Str("how=up"))
                  THEN VoteLinks(d, Tail(links), Some(Upvote(Unwrap(href))), down)
             ELSE IF Contains(Unwrap(href), Str("how=un"))
                  THEN VoteLinks(d, Tail(links), up, Some(Downvote(Unwrap(href))))
             ELSE VoteLinks(d, Tail(links), up, down)

parse_comment(d, el) ==
    LET username == parse_username(d, el)
        id == Attr(NodeAt(d, el), "id")
        depth == comment_depth(d, el)
        ageEl == First(Select(d, el, sel(".age")))
        age == IF ageEl = None THEN None ELSE el_text_opt(d, Unwrap(ageEl))
        body == First(Select(d, el, sel(".comment")))
        vl == First(Select(d, el, sel(".votelinks")))
        votes == IF vl = None THEN [up |-> None, down |-> None]
                 ELSE VoteLinks(d, Select(d, Unwrap(vl), sel("a")), None, None)
    IN  IF ~username.ok THEN username
        ELSE IF id = None THEN ParseError("Could not determine comment id")
        ELSE IF ~depth.ok THEN depth
        ELSE IF age = None THEN ParseError("Could not find comment age")
        ELSE IF body = None THEN ParseError("Could not find comment text")
        ELSE Ok([id |-> Unwrap(id),
                 depth |-> depth.val,
                 age |-> Unwrap(age),
                 username |-> username.val,
                 content_html |-> Html(NodeAt(d, Unwrap(body))),
                 children |-> <<>>,
                 upvote |-> votes.up,
                 downvote |-> votes.down])

RECURSIVE MapComments(_, _)
MapComments(d, ps) ==
    IF ps = <<>> THEN <<>>
    ELSE <<parse_comment(d, Head(ps))>> \o MapComments(d, Tail(ps))

parse_submission(id, d) ==
    LET hdr == First(Select(d, <<>>, sel(".fatitem")))
    IN  IF hdr = None THEN ParseError("Could not find post header")
        ELSE LET header == Unwrap(hdr)
                 link == parse_storylink(d, header)
                 username == parse_username(d, header)
                 score == parse_score(d, header)
                 upvote == parse_upvote(d, header)
                 downvote == parse_downvote(d, header)
                 comment_count == parse_comment_count(d, header)
                 comments == Collect(MapComments(d,
                                 Select(d, <<>>, sel(".comment-tree .athing.comtr"))))
             IN  IF ~link.ok THEN link
                 ELSE IF ~username.ok THEN username
                 ELSE IF ~score.ok THEN score
                 ELSE IF ~comment_count.ok THEN comment_count
                 ELSE IF ~comments.ok THEN comments
                 ELSE Ok([id |-> id,
                          title |-> link.val.title,
                          url |-> link.val.url,
                          username |-> username.val,
                          score |-> score.val,
                          comment_count |-> comment_count.val,
                          comments |-> comments.val,
                          vote |-> OptOr(upvote, downvote)])

-----------------------------------------------------------------------------
(* The pages the operations are run on *)

MaxRows == 2

MaxComments == 3

MaxParts == 2

SeqsUpTo(S, n) == UNION {[1..k -> S] : k \in 0..n}

Attrs(class, href, id, width) ==
    [class |-> class, href |-> href, id |-> id, width |-> width]

\* the attributes of an element with the class attribute c only
WithClass(c) == Attrs(Some(Str(c)), None, None, None)

\* <a class=.. href=..>text</a>; an empty class string stands for no attribute
Anchor(class, href, text) ==
    El("a", Attrs(IF class = Empty THEN None ELSE Some(class), Some(href), None, None),
       <<Txt(text)>>)

\* the id of the i-th item of a page: the digit i
IdOf(i) == <<48 + i>>

UpHref(id) == Str("vote?id=") \o id \o Str("&how=up&goto=news")

UnHref(id) == Str("vote?id=") \o id \o Str("&how=un&goto=news")

\* the vote arrow of a post or comment: visible, or hidden once voted
UpArrow(id, hidden) ==
    Anchor(Str(IF hidden THEN "clicky nosee" ELSE "clicky"), UpHref(id), Empty)

StoryLink(title) ==
    El("a", Attrs(Some(Str("storylink")), Some(Str("http://example.com/") \o title),
                  None, None),
       IF title = Empty THEN <<>> ELSE <<Txt(title)>>)

ItemHref(id) == Str("item?id=") \o id

\* a count text between white space of several kinds: CR LF, EM SPACE
\* (U+2003) and a space before it, NO-BREAK SPACE (U+00A0), FORM FEED,
\* IDEOGRAPHIC SPACE (U+3000) and LINE SEPARATOR (U+2028) after it
SpacedCount ==
    <<13, 10, 8195>> \o Str(" 7\n comments") \o <<160, 12, 12288, 8232>>

\* the parts a scope (a row, an action row, a header) may hold
Part(kind, id) ==
    CASE kind = "up" -> UpArrow(id, FALSE)
      [] kind = "up2" ->
             Anchor(Empty, Str("vote?id=") \o id \o Str("&how=up&x=2"), Empty)
      [] kind = "uphidden" -> UpArrow(id, TRUE)
      [] kind = "unvote" -> Anchor(Empty, UnHref(id), Str("unvote"))
      [] kind = "unvote2" ->
             Anchor(Empty, Str("vote?id=") \o id \o Str("&how=un&x=2"), Str("undown"))
      [] kind = "score532" -> El("span", WithClass("score"), <<Txt(Str(" 532 points"))>>)
      [] kind = "score1" -> El("span", WithClass("score"), <<Txt(Str("1 point"))>>)
      [] kind = "scorebad" -> El("span", WithClass("score"), <<Txt(Str("points"))>>)
      [] kind = "user" ->
             El("a", Attrs(Some(Str("hnuser")), Some(Str("user?id=bob")), None, None),
                <<Txt(Str("bob"))>>)
      [] kind = "discuss" -> Anchor(Empty, ItemHref(id), Str("discuss"))
      [] kind = "c42" -> Anchor(Empty, ItemHref(id), Str("42 comments"))
      [] kind = "c7" -> Anchor(Empty, ItemHref(id), SpacedCount)
      [] kind = "cnone" -> Anchor(Empty, ItemHref(id), Str("comments"))
      [] kind = "chuge" ->
             Anchor(Empty, ItemHref(id), Str("99999999999999999999 comments"))
      [] kind = "c1" -> Anchor(Empty, ItemHref(id), Str("1 comment"))
      [] kind = "story" -> StoryLink(Str("Example"))
      [] kind = "notitle" -> StoryLink(Empty)

RECURSIVE Parts(_, _)
Parts(kinds, id) ==
    IF kinds = <<>> THEN <<>> ELSE <<Part(Head(kinds), id)>> \o Parts(Tail(kinds), id)

\* --- single scopes, for the field extractors
PartKinds ==
    {"up", "up2", "uphidden", "unvote", "unvote2", "score532", "score1", "scorebad",
     "discuss", "c42", "c7", "cnone", "chuge", "c1"}

FieldDoc(ks) == Document(<<El("td", WithClass("subtext"), Parts(ks, IdOf(1)))>>)

FieldDocs == {FieldDoc(ks) : ks \in SeqsUpTo(PartKinds, MaxParts)}

\* --- listing pages: rows, each followed by a separator and an action row
RowKinds ==
    [good |-> <<"up", "story">>,
     voted |-> <<"uphidden", "up2", "story">>,
     noid |-> <<"up", "story">>,
     notitle |-> <<"up", "notitle">>]

ActionKinds ==
    [full |-> <<"score532", "user", "c42">>,
     voted |-> <<"score1", "user", "unvote", "discuss">>,
     bare |-> <<>>]

\* a row, what follows it ("" nothing, "ws" a whitespace text node before
\* the action row, "el" the action row at once), and the action row
GroupKinds ==
    {[row |-> r, sep |-> "el", action |-> "full"] : r \in DOMAIN RowKinds}
        \cup {[row |-> "good", sep |-> "el", action |-> a] : a \in DOMAIN ActionKinds}
        \cup {[row |-> r, sep |-> "", action |-> "bare"] : r \in {"good", "noid"}}
        \cup {[row |-> r, sep |-> "ws", action |-> "full"] : r \in {"good", "voted"}}

Row(g, i) ==
    El("tr", Attrs(Some(Str("athing")), None,
                   IF g.row = "noid" THEN None ELSE Some(IdOf(i)), None),
       Parts(RowKinds[g.row], IdOf(i)))

ActionRow(g, i) == El("tr", NoAttrs, Parts(ActionKinds[g.action], IdOf(i)))

Group(g, i) ==
    <<Row(g, i)>> \o (IF g.sep = "ws" THEN <<Txt(Str("\n "))>> ELSE <<>>)
                  \o (IF g.sep = "" THEN <<>> ELSE <<ActionRow(g, i)>>)

\* the rows of a listing are siblings under one table body, so a row without
\* an action row of its own is followed at once by the next row
RECURSIVE Groups(_, _)
Groups(gs, i) ==
    IF i > Len(gs) THEN <<>> ELSE Group(gs[i], i) \o Groups(gs, i + 1)

ListDoc(gs) ==
    Document(<<El("table", WithClass("itemlist"),
                  <<El("tbody", NoAttrs, Groups(gs, 1))>>)>>)

ListDocs == {ListDoc(gs) : gs \in SeqsUpTo(GroupKinds, MaxRows)}

\* --- submission pages: a header and a flat sequence of comment elements
HeaderKinds ==
    [full |-> <<"up", "story", "score532", "user", "c42">>,
     voted |-> <<"uphidden", "story", "score1", "user", "unvote", "discuss">>,
     job |-> <<"story", "discuss">>,
     nocount |-> <<"up", "story", "score532", "user">>,
     badcount |-> <<"up", "story", "score532", "user", "cnone">>,
     nostory |-> <<"up", "score532", "user", "c42">>]

Header(h) == El("table", WithClass("fatitem"), Parts(HeaderKinds[h], IdOf(0)))

\* the comment elements that parse: the indentation width and the state of
\* the vote links
GoodCommentKinds ==
    {[width |-> w, votes |-> "up", lacks |-> ""] : w \in {"0", "40", "80"}}
        \cup {[width |-> "40", votes |-> "voted", lacks |-> ""]}

\* the comment elements that lack a mandatory part, or whose width is no number
BadCommentKinds ==
    {[width |-> "4x", votes |-> "none", lacks |-> ""]}
        \cup {[width |-> "0", votes |-> "none", lacks |-> l] :
                  l \in {"user", "id", "ind", "age", "comment"}}

\* the sequences of at most MaxComments comment elements of which at most
\* one is a bad one
CommentSeqs ==
    SeqsUpTo(GoodCommentKinds, MaxComments)
        \cup UNION {{SubSeq(cs, 1, k) \o <<c>> \o SubSeq(cs, k + 1, Len(cs)) :
                        c \in BadCommentKinds, k \in 0..Len(cs)} :
                    cs \in SeqsUpTo(GoodCommentKinds, MaxComments - 1)}

CommentEl(c, i) ==
    El("tr", Attrs(Some(Str("athing comtr")), None,
                   IF c.lacks = "id" THEN None ELSE Some(IdOf(i)), None),
       (IF c.lacks = "ind" THEN <<>>
        ELSE <<El("td", WithClass("ind"),
                  <<El("img", Attrs(None, None, None, Some(Str(c.width))), <<>>)>>)>>)
           \o <<El("td", WithClass("votelinks"),
                   IF c.votes = "up" THEN <<UpArrow(IdOf(i), FALSE)>>
                   ELSE IF c.votes = "voted" THEN <<UpArrow(IdOf(i), TRUE)>>
                   ELSE <<>>),
                El("td", WithClass("default"),
                   (IF c.lacks = "user" THEN <<>> ELSE <<Part("user", IdOf(i))>>)
                       \o (IF c.lacks = "age" THEN <<>>
                           ELSE <<El("span", WithClass("age"),
                                     <<Txt(Str("1 hour ago"))>>)>>)
                       \o (IF c.votes = "voted" THEN <<Part("unvote", IdOf(i))>> ELSE <<>>)
                       \o (IF c.lacks = "comment" THEN <<>>
                           ELSE <<El("div", WithClass("comment"),
                                     <<Txt(Str("text ") \o IdOf(i))>>)>>))>>)

RECURSIVE CommentEls(_, _)
CommentEls(cs, i) ==
    IF i > Len(cs) THEN <<>> ELSE <<CommentEl(cs[i], i)>> \o CommentEls(cs, i + 1)

SubDoc(h, cs) ==
    Document((IF h = "none" THEN <<>> ELSE <<Header(h)>>)
                 \o <<El("table", WithClass("comment-tree"), CommentEls(cs, 1))>>)

\* every header without comments, and the full header with every sequence
\* of comment elements
SubDocs ==
    {SubDoc(h, <<>>) : h \in DOMAIN HeaderKinds \cup {"none"}}
        \cup {SubDoc("full", cs) : cs \in CommentSeqs}

Docs == FieldDocs \cup ListDocs \cup SubDocs

PostIds == {IdOf(0), IdOf(1), IdOf(2)}

\* the ids a submission is asked for on the pages above
RequestedIds == {IdOf(0), IdOf(7)}

-----------------------------------------------------------------------------
(* Client operations on a fetched page *)

\* the element the field extractors are applied to: the cell that is the only
\* top-level node of a single-scope page
Scope == <<1>>

IsScopePage(d) == Len(d.kids) = 1 /\ d.kids[1].tag = "td"

\* the error of a request that failed (reqwest::Error as DynErr)
RequestError == [ok |-> FALSE, err |-> "request failed"]

\* Client::top: fetch the listing page and parse it
Top ==
    /\ op = "none"
    /\ op' = "top"
    /\ res' = parse_list(doc)
    /\ UNCHANGED <<doc, upvoted, held>>

\* Client::submission: fetch the item page and parse it
Submission(id) ==
    /\ op = "none"
    /\ op' = "submission"
    /\ res' = parse_submission(id, doc)
    /\ UNCHANGED <<doc, upvoted, held>>

\* Client::top / Client::submission when get_dom fails: the request error is
\* returned and no page is parsed
FetchFails ==
    /\ op = "none"
    /\ op' = "fetch failed"
    /\ res' = RequestError
    /\ UNCHANGED <<doc, upvoted, held>>

Score ==
    /\ op = "none"
    /\ IsScopePage(doc)
    /\ op' = "score"
    /\ res' = parse_score(doc, Scope)
    /\ UNCHANGED <<doc, upvoted, held>>

CommentCount ==
    /\ op = "none"
    /\ IsScopePage(doc)
    /\ op' = "comment_count"
    /\ res' = parse_comment_count(doc, Scope)
    /\ UNCHANGED <<doc, upvoted, held>>

UpvoteOf ==
    /\ op = "none"
    /\ IsScopePage(doc)
    /\ op' = "upvote"
    /\ res' = parse_upvote(doc, Scope)
    /\ UNCHANGED <<doc, upvoted, held>>

DownvoteOf ==
    /\ op = "none"
    /\ IsScopePage(doc)
    /\ op' = "downvote"
    /\ res' = parse_downvote(doc, Scope)
    /\ UNCHANGED <<doc, upvoted, held>>

Init ==
    /\ doc \in Docs
    /\ op = "none"
    /\ res = None
    /\ upvoted = {}
    /\ held = None

Next ==
    \/ Top
    \/ \E id \in RequestedIds : Submission(id)
    \/ FetchFails
    \/ Score
    \/ CommentCount
    \/ UpvoteOf
    \/ DownvoteOf

Spec == Init /\ [][Next]_vars

-----------------------------------------------------------------------------
(* An authenticated session against the site *)

\* the posts of the site, in listing order
SitePosts == <<IdOf(0), IdOf(1), IdOf(2)>>

\* the header parts of a post as the site shows it to the session: once the
\* session has upvoted the post the vote arrow is hidden and an unvote link
\* is offered
SiteRowParts(voted) == <<IF voted THEN "uphidden" ELSE "up", "story">>

SiteActionParts(voted) ==
    <<"score532", "user">> \o (IF voted THEN <<"unvote">> ELSE <<>>) \o <<"c42">>

RECURSIVE SiteRows(_, _)
SiteRows(up, i) ==
    IF i > Len(SitePosts) THEN <<>>
    ELSE <<El("tr", Attrs(Some(Str("athing")), None, Some(SitePosts[i]), None),
              Parts(SiteRowParts(SitePosts[i] \in up), SitePosts[i])),
           El("tr", NoAttrs, Parts(SiteActionParts(SitePosts[i] \in up), SitePosts[i])),
           El("tr", WithClass("spacer"), <<>>)>>
             \o SiteRows(up, i + 1)

\* the listing page
SiteListing(up) ==
    Document(<<El("table", WithClass("itemlist"),
                  <<El("tbody", NoAttrs, SiteRows(up, 1))>>)>>)

\* the item page of a post
SiteItem(id, up) ==
    Document(<<El("table", WithClass("fatitem"),
                  Parts(SiteRowParts(id \in up) \o SiteActionParts(id \in up), id)),
               El("table", WithClass("comment-tree"), <<>>)>>)

\* the site's handling of a vote link: how=up records the upvote of the
\* post the link names, how=un withdraws it
SiteVote(link, up) ==
    LET id == CHOOSE i \in PostIds : Contains(link, Str("id=") \o i \o Str("&"))
    IN  IF Contains(link, Str("how=up")) THEN up \cup {id} ELSE up \ {id}

\* Client::top in the session; the caller keeps the vote action of an item
AuthTop ==
    /\ doc' = SiteListing(upvoted)
    /\ op' = "top"
    /\ res' = parse_list(doc')
    /\ \E i \in 1..Len(res'.val) : held' = res'.val[i].vote
    /\ UNCHANGED upvoted

\* Client::submission in the session; the caller keeps the post's vote action
AuthSubmission(id) ==
    /\ doc' = SiteItem(id, upvoted)
    /\ op' = "submission"
    /\ res' = parse_submission(id, doc')
    /\ held' = res'.val.vote
    /\ UNCHANGED upvoted

\* Client::top / Client::submission in the session when get_dom fails: the
\* caller gets the request error and keeps what it held
AuthFetchFails ==
    /\ op' = "fetch failed"
    /\ res' = RequestError
    /\ UNCHANGED <<doc, upvoted, held>>

\* AuthenticatedClient::vote with the action held, answered by the site
Vote ==
    /\ held # None
    /\ op' = "vote"
    /\ upvoted' = SiteVote(url(Unwrap(held)), upvoted)
    /\ UNCHANGED <<doc, res, held>>

\* AuthenticatedClient::vote failing in transport: the site saw no request
VoteFails ==
    /\ held # None
    /\ op' = "vote failed"
    /\ UNCHANGED <<doc, res, held, upvoted>>

InitAuth ==
    /\ doc = Document(<<>>)
    /\ op = "none"
    /\ res = None
    /\ upvoted = {}
    /\ held = None

NextAuth ==
    \/ AuthTop
    \/ \E id \in PostIds : AuthSubmission(id)
    \/ AuthFetchFails
    \/ Vote
    \/ VoteFails

SpecAuth == InitAuth /\ [][NextAuth]_vars

-----------------------------------------------------------------------------
(* What the pages hold, read off the document independently of the parser *)

Rows(d) == Select(d, <<>>, sel(".athing"))

CommentRefs(d) == Select(d, <<>>, sel(".comment-tree .athing.comtr"))

Headers(d) == Select(d, <<>>, sel(".fatitem"))

HasStory(d, p) ==
    LET sl == Select(d, p, sel(".storylink"))
    IN  /\ sl # <<>>
        /\ Attr(NodeAt(d, sl[1]), "href") # None
        /\ el_text(d, sl[1]) # Empty

HasId(d, p) == Attr(NodeAt(d, p), "id") # None

\* the node right after the row is an element
FollowedByElement(d, p) ==
    LET parent == SubSeq(p, 1, Len(p) - 1)
    IN  /\ p[Len(p)] < Len(NodeAt(d, parent).kids)
        /\ IsElement(NodeAt(d, parent).kids[p[Len(p)] + 1])

\* the indices of the sibling elements after the row, other nodes skipped
LaterElements(d, p) ==
    LET parent == SubSeq(p, 1, Len(p) - 1)
    IN  {i \in (p[Len(p)] + 1)..Len(NodeAt(d, parent).kids) :
            IsElement(NodeAt(d, parent).kids[i])}

RowWellFormed(d, p) == HasId(d, p) /\ HasStory(d, p) /\ FollowedByElement(d, p)

AllDigits(s) == s # Empty /\ \A i \in 1..Len(s) : IsAsciiDigit(CharAt(s, i))

UserText(d, p) ==
    LET u == Select(d, p, sel(".hnuser"))
    IN  IF u = <<>> THEN Empty ELSE el_text(d, u[1])

CommentWellFormed(d, p) ==
    /\ UserText(d, p) # Empty
    /\ HasId(d, p)
    /\ LET g == Select(d, p, sel(".ind img"))
       IN  /\ g # <<>>
           /\ Attr(NodeAt(d, g[1]), "width") # None
           /\ AllDigits(Unwrap(Attr(NodeAt(d, g[1]), "width")))
           /\ ~Exceeds(Unwrap(Attr(NodeAt(d, g[1]), "width")), U32Max)
    /\ LET a == Select(d, p, sel(".age")) IN a # <<>> /\ el_text(d, a[1]) # Empty
    /\ Select(d, p, sel(".comment")) # <<>>

AllRows(d, P(_, _)) == \A i \in 1..Len(Rows(d)) : P(d, Rows(d)[i])

AllComments(d, P(_, _)) == \A i \in 1..Len(CommentRefs(d)) : P(d, CommentRefs(d)[i])

Num(n) == [num |-> TRUE, n |-> n]

NoNum(why) == [num |-> FALSE, why |-> why]

\* the comment count a scope shows: a number, or why there is none
CountOf(d, p) ==
    LET as == Select(d, p, sel("a"))
        m == {i \in 1..Len(as) :
                 \/ EndsWith(el_text(d, as[i]), Str("comments"))
                 \/ el_text(d, as[i]) = Str("discuss")}
    IN  IF m = {} THEN NoNum("missing")
        ELSE LET t == el_text(d, as[CHOOSE i \in m : \A j \in m : j <= i])
                 ds == FilterDigits(t)
             IN  IF t = Str("discuss") THEN Num(0)
                 ELSE IF ds = Empty \/ Exceeds(ds, U64Max) THEN NoNum("unparsable")
                 ELSE Num(NumVal(ds))

\* the score a scope shows: a number, or why there is none
ScoreOf(d, p) ==
    LET s == Select(d, p, sel(".score"))
    IN  IF s = <<>> THEN NoNum("missing")
        ELSE LET tok == FirstSplit(el_text(d, s[1]))
             IN  IF AllDigits(tok) /\ ~Exceeds(tok, U64Max) THEN Num(NumVal(tok))
                 ELSE NoNum("unparsable")

\* the anchors of a scope that offer an upvote and are not hidden
RECURSIVE KeepVisibleUps(_, _)
KeepVisibleUps(d, ps) ==
    IF ps = <<>> THEN <<>>
    ELSE (IF /\ Contains(Href(d, Head(ps)), Str("how=up"))
             /\ ~Contains(UnwrapOr(Attr(NodeAt(d, Head(ps)), "class"), Empty),
                          Str("nosee"))
          THEN <<Head(ps)>> ELSE <<>>)
             \o KeepVisibleUps(d, Tail(ps))

VisibleUps(d, p) == KeepVisibleUps(d, Select(d, p, sel("a")))

RECURSIVE KeepDowns(_, _)
KeepDowns(d, ps) ==
    IF ps = <<>> THEN <<>>
    ELSE (IF Contains(Href(d, Head(ps)), Str("how=un")) THEN <<Head(ps)>> ELSE <<>>)
             \o KeepDowns(d, Tail(ps))

Downs(d, p) == KeepDowns(d, Select(d, p, sel("a")))

-----------------------------------------------------------------------------
(* Properties *)

\* the row has a sibling element after it: the action row it is paired with
HasActionRow(d, p) == LaterElements(d, p) # {}

\* C2: a listing page whose N rows each carry an id and a story link and are
\* each paired with an action row (the sibling element that follows the row)
\* parses to exactly N posts, the i-th post built from the i-th row, every
\* post with an empty comments list.
ListingCountAndOrder ==
    (/\ op = "top"
     /\ AllRows(doc, HasId) /\ AllRows(doc, HasStory) /\ AllRows(doc, HasActionRow)) =>
        /\ res.ok
        /\ Len(res.val) = Len(Rows(doc))
        /\ \A i \in 1..Len(Rows(doc)) :
               LET sl == Select(doc, Rows(doc)[i], sel(".storylink"))[1]
               IN  /\ res.val[i].id = Unwrap(Attr(NodeAt(doc, Rows(doc)[i]), "id"))
                   /\ res.val[i].title = el_text(doc, sl)
                   /\ res.val[i].url = Unwrap(Attr(NodeAt(doc, sl), "href"))
                   /\ res.val[i].comments = <<>>

\* C6: a listing with a row that fails a mandatory extraction (id, story
\* link, action row) yields an error and no posts; a submission page with a
\* comment element that fails a mandatory extraction (username, id, depth,
\* age, body) yields an error and no post; a result that is returned holds
\* every row, or every comment element, of the page.
AllOrNothing ==
    /\ op = "top" =>
           /\ res.ok <=> AllRows(doc, RowWellFormed)
           /\ res.ok => Len(res.val) = Len(Rows(doc))
           /\ ~res.ok => DOMAIN res = {"ok", "err"}
    /\ op = "submission" =>
           /\ ~AllComments(doc, CommentWellFormed) => ~res.ok
           /\ res.ok => Len(res.val.comments) = Len(CommentRefs(doc))
           /\ ~res.ok => DOMAIN res = {"ok", "err"}

OneBadRowFailsListing ==
    /\ op = "top"
    /\ \E i \in 1..Len(Rows(doc)) : RowWellFormed(doc, Rows(doc)[i])
    /\ \E i \in 1..Len(Rows(doc)) : ~RowWellFormed(doc, Rows(doc)[i])
    /\ ~res.ok

\* C9: the comment count of a scope is read from the last anchor whose text
\* ends with "comments" or is "discuss": "discuss" gives 0, otherwise the
\* number written by the digits of the text; without digits the extraction
\* fails with a parse failure, without such an anchor with a missing-field
\* failure, a different outcome.  A listing replaces the failure by 0, a
\* submission header propagates it.
CommentCountRule ==
    /\ op = "comment_count" =>
           /\ CountOf(doc, Scope).num => res = Ok(CountOf(doc, Scope).n)
           /\ CountOf(doc, Scope) = NoNum("missing") =>
                  res = ParseError("Could not find comment count")
           /\ CountOf(doc, Scope) = NoNum("unparsable") =>
                  /\ ~res.ok
                  /\ res # ParseError("Could not find comment count")
           /\ doc = FieldDoc(<<"discuss">>) => res = Ok(0)
           /\ doc = FieldDoc(<<"c42">>) => res = Ok(42)
           /\ doc = FieldDoc(<<"c42", "discuss">>) => res = Ok(0)
           /\ doc = FieldDoc(<<"discuss", "c42">>) => res = Ok(42)
           /\ doc = FieldDoc(<<"c1">>) => ~res.ok
    /\ (op = "top" /\ res.ok) =>
           \A i \in 1..Len(Rows(doc)) :
               LET c == CountOf(doc, Unwrap(next_sibling(doc, Rows(doc)[i])))
               IN  res.val[i].comment_count = IF c.num THEN c.n ELSE 0
    /\ (op = "submission" /\ Headers(doc) # <<>>) =>
           LET c == CountOf(doc, Headers(doc)[1])
           IN  /\ ~c.num => ~res.ok
               /\ res.ok => res.val.comment_count = c.n

LastCountAnchorUsed ==
    /\ op = "comment_count"
    /\ doc = FieldDoc(<<"discuss", "c42">>)
    /\ res = Ok(42)

\* the depths of the comment elements of a page, in document order
DocDepths(d) ==
    [i \in 1..Len(CommentRefs(d)) |-> comment_depth(d, CommentRefs(d)[i]).val]

\* first depth 0, each later depth at most the previous depth + 1
ValidForest(ds) ==
    \A i \in 1..Len(ds) : IF i = 1 THEN ds[i] = 0 ELSE ds[i] <= ds[i - 1] + 1

RECURSIVE Preorder(_)
Preorder(forest) ==
    IF forest = <<>> THEN <<>>
    ELSE <<Head(forest).id>> \o Preorder(Head(forest).children) \o Preorder(Tail(forest))

RECURSIVE ChildDepthsOk(_)
ChildDepthsOk(forest) ==
    \A i \in 1..Len(forest) :
        /\ \A k \in 1..Len(forest[i].children) :
               forest[i].children[k].depth = forest[i].depth + 1
        /\ ChildDepthsOk(forest[i].children)

\* C1: for comment elements whose depths form a valid forest, the comments of
\* the returned post are a forest: every root has depth 0, every child has
\* its parent's depth + 1, and the pre-order traversal gives the comments in
\* document order.
CommentsFormForest ==
    (op = "submission" /\ res.ok /\ ValidForest(DocDepths(doc))) =>
        /\ \A i \in 1..Len(res.val.comments) : res.val.comments[i].depth = 0
        /\ ChildDepthsOk(res.val.comments)
        /\ Preorder(res.val.comments) =
               [i \in 1..Len(CommentRefs(doc)) |->
                   Unwrap(Attr(NodeAt(doc, CommentRefs(doc)[i]), "id"))]

\* the vote the claim derives from the anchors: an upvote of a visible upvote
\* anchor if there is one, else a downvote of a downvote anchor if there is
\* one, else none
VoteDerived(vote, d, upScope, downScope) ==
    LET ups == VisibleUps(d, upScope)
        downs == Downs(d, downScope)
    IN  IF ups # <<>>
        THEN \E i \in 1..Len(ups) : vote = Some(Upvote(Href(d, ups[i])))
        ELSE IF downs # <<>>
        THEN \E i \in 1..Len(downs) : vote = Some(Downvote(Href(d, downs[i])))
        ELSE vote = None

\* C3: the vote of a post is Some(Upvote(href)) when its scope has an upvote
\* anchor (alone or together with a downvote anchor), Some(Downvote(href))
\* when it has only a downvote anchor, None when it has neither, href being
\* the href of the anchor chosen; in a listing and in a submission header.
PostVoteDerivation ==
    /\ (op = "submission" /\ res.ok) =>
           VoteDerived(res.val.vote, doc, Headers(doc)[1], Headers(doc)[1])
    /\ (op = "top" /\ res.ok) =>
           \A i \in 1..Len(Rows(doc)) :
               VoteDerived(res.val[i].vote, doc, Rows(doc)[i],
                           Unwrap(next_sibling(doc, Rows(doc)[i])))

\* C5: a missing or unparsable username or score never fails an operation:
\* the post is returned with username "<unknown>" and score 0; a submission
\* needs only its header's story link and comment count, and its comments.
OptionalFieldsDefault ==
    /\ (op = "top" /\ AllRows(doc, RowWellFormed)) =>
           /\ res.ok
           /\ \A i \in 1..Len(Rows(doc)) :
                  LET a == Unwrap(next_sibling(doc, Rows(doc)[i]))
                  IN  /\ UserText(doc, a) = Empty => res.val[i].username = Str("<unknown>")
                      /\ ~ScoreOf(doc, a).num => res.val[i].score = 0
    /\ (/\ op = "submission"
        /\ Headers(doc) # <<>>
        /\ HasStory(doc, Headers(doc)[1])
        /\ CountOf(doc, Headers(doc)[1]).num
        /\ AllComments(doc, CommentWellFormed)) =>
           /\ res.ok
           /\ UserText(doc, Headers(doc)[1]) = Empty =>
                  res.val.username = Str("<unknown>")
           /\ ~ScoreOf(doc, Headers(doc)[1]).num => res.val.score = 0

\* the upvote the claim extracts from a scope
UpvoteDerived(up, d, scope) ==
    LET ups == VisibleUps(d, scope)
    IN  IF ups # <<>>
        THEN \E i \in 1..Len(ups) : up = Some(Upvote(Href(d, ups[i])))
        ELSE up = None

\* C7: the extracted upvote is Some(Upvote(href)) exactly when the scope has
\* an anchor whose href holds the upvote marker and whose class does not hold
\* the hidden marker, href being that anchor's; for a post and for a comment.
UpvoteOnlyFromVisibleAnchor ==
    /\ op = "upvote" => UpvoteDerived(res, doc, Scope)
    /\ (op = "submission" /\ res.ok) =>
           \A i \in 1..Len(CommentRefs(doc)) :
               UpvoteDerived(res.val.comments[i].upvote, doc, CommentRefs(doc)[i])

\* C8: the score is the leading token of the score text read as a number
\* (" 532 points" gives 532, "1 point" gives 1); a missing score element and
\* an unparsable score text fail with two different outcomes.
ScoreRule ==
    op = "score" =>
        /\ ScoreOf(doc, Scope).num => res = Ok(ScoreOf(doc, Scope).n)
        /\ doc = FieldDoc(<<"score532">>) => res = Ok(532)
        /\ doc = FieldDoc(<<"score1">>) => res = Ok(1)
        /\ ScoreOf(doc, Scope) = NoNum("missing") =>
               /\ ~res.ok
               /\ res = parse_score(FieldDoc(<<>>), Scope)
        /\ ScoreOf(doc, Scope) = NoNum("unparsable") =>
               /\ ~res.ok
               /\ res # parse_score(FieldDoc(<<>>), Scope)

\* C10: a row is paired with the first sibling element after it, the nodes
\* in between that are no elements being skipped; the listing fails for want
\* of an action row only when a row has no later sibling element.
ActionRowIsNextElement ==
    (op = "top" /\ AllRows(doc, HasId) /\ AllRows(doc, HasStory)) =>
        /\ res.ok <=> \A i \in 1..Len(Rows(doc)) : LaterElements(doc, Rows(doc)[i]) # {}
        /\ res.ok =>
               \A i \in 1..Len(Rows(doc)) :
                   LET later == LaterElements(doc, Rows(doc)[i])
                       a == Append(SubSeq(Rows(doc)[i], 1, Len(Rows(doc)[i]) - 1),
                                   CHOOSE k \in later : \A j \in later : k <= j)
                   IN  res.val[i].comment_count =
                           IF CountOf(doc, a).num THEN CountOf(doc, a).n ELSE 0

\* the post a vote action is for
VoteTarget(action) ==
    CHOOSE i \in PostIds : Contains(url(action), Str("id=") \o i \o Str("&"))

\* C4: in an authenticated session every fetch of a post returns a vote
\* action, which is a Downvote exactly when the session has upvoted the post;
\* the fetch that follows a successful vote with an Upvote of the post
\* returns a Downvote, the fetch that follows a vote with that Downvote
\* returns an Upvote.
VoteRoundTripStep ==
    /\ op' = "submission" =>
           /\ res'.ok
           /\ res'.val.vote # None
           /\ VoteTarget(Unwrap(res'.val.vote)) = res'.val.id
           /\ ~is_upvote(Unwrap(res'.val.vote)) <=> res'.val.id \in upvoted'
    /\ (op = "vote" /\ op' = "submission" /\ res'.val.id = VoteTarget(Unwrap(held))) =>
           is_upvote(Unwrap(res'.val.vote)) = ~is_upvote(Unwrap(held))

VoteRoundTrip == [][VoteRoundTripStep]_vars

\* a Downvote fetched for a post the session has upvoted since it logged in
DownvoteFetchedAfterUpvote ==
    /\ op = "submission"
    /\ res.ok
    /\ res.val.vote # None
    /\ ~is_upvote(Unwrap(res.val.vote))
    /\ res.val.id \in upvoted

====
